---- MODULE Spec2Model ----
(***************************************************************************)
(* Verification model of rpi.gpio: the Component state/event contract      *)
(* (Component.on, Component.set_state) and the Clock background loop       *)
(* (Clock.start, Clock.stop, Clock.__run__), and of rpi.gpio.lights: the   *)
(* multiplexed display FourDigitSevenSegmentLED with its refresh thread.    *)
(***************************************************************************)
EXTENDS Integers, Sequences, FiniteSets, TLC

(***************************************************************************)
(* Bounds of the model.                                                    *)
(***************************************************************************)
NStates == 2
MaxRegs == 2
MaxCalls == 2
NCallers == 1
MaxThreads == 2
MaxTick == 2
NChars == 2
MaxDisplayCalls == 2
NDisplayCallers == 2

States == 0 .. (NStates - 1)

\* Python's None (absent trigger, absent thread handle)
None == -1

VARIABLES
    state,            \* Component.state: the committed state value
    trigger_events,   \* Component.trigger_events: list of (trigger, event)
    frames,           \* call stack of set_state activations in their for loop
    ncalls,           \* number of set_state calls made so far (outer and nested)
    committed,        \* history: committed[t] is the state committed by transition t
    fired,            \* history: event invocations, [id, trans]
    registered_at,    \* history: registered_at[id] = number of commits before on()
    last_set,         \* history: argument and prior state of the latest set_state call
    raised            \* history: the activations left by the exception of the latest call

compVars == <<state, trigger_events, frames, ncalls, committed, fired,
              registered_at, last_set, raised>>

VARIABLES
    clock_state,            \* Clock.state: the State object, [running, tick]
    tick_interval_seconds,  \* Clock.tick_interval_seconds: None or an interval
    run_thread,             \* Clock.run_thread: None or the latest Thread
    state_lock,             \* Clock.state_lock: <<>> when free, else its holder
    thread_pc,              \* position of every Thread(target=self.__run__)
    caller_pc,              \* position of every application thread in start()/stop()
    joining,                \* the Thread object a caller's join() waits for
    notified,               \* the state of the latest commit made through set_state
    outcome,                \* history: how each caller's latest call ended
    logged,                 \* history: the warning logged by each caller's latest call
    spawns_in_row,          \* history: threads spawned since the latest stop() call
    stop_flipped,           \* history: stop() cleared running and no start() ran since
    spawned_before          \* history: threads started before each caller's stop() call

clockVars == <<clock_state, tick_interval_seconds, run_thread, state_lock,
               thread_pc, caller_pc, joining, notified, outcome, logged,
               spawns_in_row, stop_flipped, spawned_before>>

VARIABLES
    led_state,              \* FourDigitSevenSegmentLED.state: one (character, decimal_point) per LED
    display_thread,         \* FourDigitSevenSegmentLED.display_thread: None or the latest Thread
    run_display_thread,     \* FourDigitSevenSegmentLED.run_display_thread
    pins,                   \* level of each pin of led_transistor_base_pins
    character_segments,     \* SevenSegmentLedShiftRegister.CHARACTER_SEGMENTS (class attribute)
    written,                \* segments switched on by the latest shift_register.write
    refresh_pc,             \* position of every Thread(target=self.display_thread_target)
    refresh_led,            \* the local led of every refresh thread
    refresh_pin,            \* the local pin_idx of every refresh thread
    display_pc,             \* position of the application thread in set_state/stop_display_thread
    display_calls,          \* number of set_state calls made on the display so far
    last_call,              \* history: the method of the display called last
    started_in_call,        \* history: refresh threads started by the latest set_state call
    display_joining         \* the Thread whose join() an application thread is in

dispVars == <<led_state, display_thread, run_display_thread, pins,
              character_segments, written, refresh_pc, refresh_led,
              refresh_pin, display_pc, display_calls, last_call,
              started_in_call, display_joining>>

VARIABLES
    eq_left,                \* the State object whose __eq__ or __ne__ ran last
    eq_right,               \* the object it was compared with
    eq_result,              \* what the comparison returned or raised
    kind_state,             \* the state of one component of some kind
    kind_outcome,           \* history: how the latest set_state call on it ended
    kind_wrote,             \* history: that call wrote to the component's hardware
    kind_last               \* history: argument and prior state of that call

kindVars == <<eq_left, eq_right, eq_result, kind_state, kind_outcome,
              kind_wrote, kind_last>>

VARIABLES
    led_on,                 \* LED.state.on
    led_reverse,            \* LED.reverse
    led_pin,                \* the level last written to LED.output_pin
    led_events,             \* LED.trigger_events: list of (trigger, event)
    led_frames,             \* call stack of LED.set_state activations
    led_calls               \* number of set_state calls made on the LED so far

ledVars == <<led_on, led_reverse, led_pin, led_events, led_frames, led_calls>>

VARIABLES
    seg_state,              \* SevenSegmentLedShiftRegister.state
    seg_registered,         \* an on(None, event) registration was made on it
    seg_fired,              \* history: that event was invoked
    seg_outcome,            \* history: how the latest display(...) call ended
    seg_last,               \* history: the (character, decimal_point) of that call
    seg_observed            \* history: the registration existed when it was made

segVars == <<seg_state, seg_registered, seg_fired, seg_outcome, seg_last,
             seg_observed>>

VARIABLES
    clock_event,            \* what the event registered on the clock does
    loop_raised             \* history: loop threads ended by an exception

obsVars == <<clock_event, loop_raised>>

vars == <<compVars, clockVars, dispVars, kindVars, ledVars, segVars, obsVars>>

(***************************************************************************)
(* Triggers are None or a predicate over State; the predicate "k" is       *)
(* lambda s: s == k.  Events are callbacks; their bodies do nothing        *)
(* ("noop"), call on(None, <noop>) on the component ("on"), or call        *)
(* set_state(k) on the component ("set", arg k).  A trigger or an event    *)
(* may also raise an exception (the trigger Raises, the body "raise").     *)
(***************************************************************************)
Raises == -2

Triggers == {None} \cup States

EventBodies == {[kind |-> "noop", arg |-> 0], [kind |-> "on", arg |-> 0]}
               \cup {[kind |-> "set", arg |-> k] : k \in States}

\* the (trigger, event) pairs application code registers
Registrations ==
    (Triggers \X EventBodies)
        \cup (Triggers \X {[kind |-> "raise", arg |-> 0]})
        \cup {<<Raises, [kind |-> "noop", arg |-> 0]>>}

\* (mutation of Fires: a registration without a trigger never fires)
FiresOnlyOnPredicate(trigger, st) == trigger = st

\* trigger is None or trigger(self.state)
Fires(trigger, st) == trigger = None \/ trigger = st

\* (mutation of Differs: the equality test is dropped)
DiffersAlways(new, cur) == TRUE

\* state != self.state
Differs(new, cur) == new # cur

\* (mutation of OnAppend: the registration is put in front)
OnPrepend(regs, r) == <<r>> \o regs

\* self.trigger_events.append((trigger, event))
OnAppend(regs, r) == Append(regs, r)

\* the list iterator of "for trigger, event in self.trigger_events"
IterNext(i) == i + 1
IterHasNext(i, regs) == i <= Len(regs)

NewReg(trigger, body) ==
    [trigger |-> trigger, event |-> body, id |-> Len(registered_at) + 1]

Top == frames[Len(frames)]

\* (mutation of Unwind: set_state catches the exception and goes on)
UnwindCaught(stack, resumed) == resumed

\* set_state has no except clause: an exception raised by a trigger or an
\* event leaves every activation on the stack and reaches the caller
Unwind(stack, resumed) == <<>>

\* the activations an exception passes through, each with its transition
\* and the registration it was running (a suspended activation has its
\* iterator already advanced past that registration)
Trace(stack) ==
    [k \in DOMAIN stack |->
        [trans |-> stack[k].trans,
         id |-> trigger_events[IF k = Len(stack) THEN stack[k].idx
                                                 ELSE stack[k].idx - 1].id]]
Below == SubSeq(frames, 1, Len(frames) - 1)

\* Component.on, as a change of the registration list and its history
OnEffect(trigger, body) ==
    /\ trigger_events' = OnAppend(trigger_events, NewReg(trigger, body))
    /\ registered_at' = Append(registered_at, Len(committed))

\* Component.set_state(s) called with the activations `stack` suspended below it
SetStateEffect(s, stack) ==
    /\ ncalls' = ncalls + 1
    /\ last_set' = [arg |-> s, old |-> state]
    /\ IF Differs(s, state)
       THEN /\ state' = s
            /\ committed' = Append(committed, s)
            /\ frames' = Append(stack, [trans |-> Len(committed) + 1,
                                        idx |-> 1, phase |-> "loop"])
       ELSE /\ UNCHANGED <<state, committed>>
            /\ frames' = stack

InitComponent ==
    /\ state \in States
    /\ trigger_events = <<>>
    /\ frames = <<>>
    /\ ncalls = 0
    /\ committed = <<>>
    /\ fired = <<>>
    /\ registered_at = <<>>
    /\ last_set = [arg |-> state, old |-> state]
    /\ raised = <<>>

\* application code calls component.on(trigger, event)
On ==
    /\ UNCHANGED <<clockVars, dispVars, kindVars, ledVars, segVars, obsVars>>
    /\ frames = <<>>
    /\ Len(registered_at) < MaxRegs
    /\ \E r \in Registrations : OnEffect(r[1], r[2])
    /\ UNCHANGED <<state, frames, ncalls, committed, fired, last_set, raised>>

\* application code calls component.set_state(s)
SetState ==
    /\ UNCHANGED <<clockVars, dispVars, kindVars, ledVars, segVars, obsVars>>
    /\ frames = <<>>
    /\ ncalls < MaxCalls
    /\ \E s \in States : SetStateEffect(s, <<>>)
    /\ raised' = <<>>
    /\ UNCHANGED <<trigger_events, fired, registered_at>>

\* one iteration of the for loop: test the trigger, invoke the event
Dispatch ==
    /\ UNCHANGED <<clockVars, dispVars, kindVars, ledVars, segVars, obsVars>>
    /\ frames # <<>>
    /\ Top.phase = "loop"
    /\ IterHasNext(Top.idx, trigger_events)
    /\ LET r == trigger_events[Top.idx]
           resumed == Append(Below, [Top EXCEPT !.idx = IterNext(Top.idx)])
       IN
       IF r.trigger = Raises
       THEN /\ frames' = Unwind(frames, resumed)
            /\ raised' = Trace(frames)
            /\ UNCHANGED fired
       ELSE IF Fires(r.trigger, state)
       THEN /\ fired' = Append(fired, [id |-> r.id, trans |-> Top.trans])
            /\ frames' = Append(Below, [Top EXCEPT !.phase = "event"])
            /\ UNCHANGED raised
       ELSE /\ frames' = resumed
            /\ UNCHANGED <<fired, raised>>
    /\ UNCHANGED <<state, trigger_events, ncalls, committed, registered_at, last_set>>

\* the body of the invoked event runs
EventBody ==
    /\ UNCHANGED <<clockVars, dispVars, kindVars, ledVars, segVars, obsVars>>
    /\ frames # <<>>
    /\ Top.phase = "event"
    /\ LET body == trigger_events[Top.idx].event
           resumed == Append(Below, [Top EXCEPT !.idx = IterNext(Top.idx),
                                                !.phase = "loop"])
       IN \/ /\ body.kind = "noop"
             /\ frames' = resumed
             /\ UNCHANGED <<state, trigger_events, ncalls, committed,
                            registered_at, last_set, raised>>
          \/ /\ body.kind = "on"
             /\ Len(registered_at) < MaxRegs
             /\ OnEffect(None, [kind |-> "noop", arg |-> 0])
             /\ frames' = resumed
             /\ UNCHANGED <<state, ncalls, committed, last_set, raised>>
          \/ /\ body.kind = "set"
             /\ ncalls < MaxCalls
             /\ SetStateEffect(body.arg, resumed)
             /\ UNCHANGED <<trigger_events, registered_at, raised>>
          \/ /\ body.kind = "raise"
             /\ frames' = Unwind(frames, resumed)
             /\ raised' = Trace(frames)
             /\ UNCHANGED <<state, trigger_events, ncalls, committed,
                            registered_at, last_set>>
    /\ UNCHANGED fired

\* the for loop is exhausted and set_state returns
Return ==
    /\ UNCHANGED <<clockVars, dispVars, kindVars, ledVars, segVars, obsVars>>
    /\ frames # <<>>
    /\ Top.phase = "loop"
    /\ ~IterHasNext(Top.idx, trigger_events)
    /\ frames' = Below
    /\ UNCHANGED <<state, trigger_events, ncalls, committed, fired,
                   registered_at, last_set, raised>>

(***************************************************************************)
(* Clock: application threads (callers) call start() and stop(); every     *)
(* start() that finds the clock stopped creates a Thread running __run__.  *)
(***************************************************************************)
Callers == 1 .. NCallers
Threads == 1 .. MaxThreads

\* the interval used when the clock is constructed with one
SomeInterval == 1

Caller(c) == <<"caller", c>>
Loop(t) == <<"loop", t>>
Free == <<>>

\* Clock.State(running, tick)
ClockState(running, tick) == [running |-> running, tick |-> tick]

\* Thread.is_alive(): started and not yet finished
Alive(t) == thread_pc[t] \notin {"unborn", "created", "done"}
Started(t) == thread_pc[t] \notin {"unborn", "created"}

\* the Thread object the next Thread(target=self.__run__) creates
NewThread == CHOOSE t \in Threads :
                 thread_pc[t] = "unborn" /\ \A u \in Threads : u < t => thread_pc[u] # "unborn"
InStart(c) == caller_pc[c] \in {"start", "startLocked", "startSpawn"}
CanCreate ==
    Cardinality({t \in Threads : thread_pc[t] # "unborn"})
        + Cardinality({c \in Callers : InStart(c)}) < MaxThreads

\* where the loop goes before it takes the lock again
LoopTop == IF tick_interval_seconds = None THEN "tick" ELSE "sleep"

\* (mutation of ResetState: the tick is not set back to 0)
ResetKeepsTick(cur) == ClockState(TRUE, cur.tick)

\* the state the reset block of __run__ passes to set_state
ResetState(cur) == ClockState(TRUE, 0)

\* the state a loop iteration passes to set_state
TickState(cur) == ClockState(cur.running, cur.tick + 1)

\* the state the final block of __run__ passes to set_state
FinalState(cur) == ClockState(FALSE, cur.tick)

\* Clock.stop's branch on self.state.running
StopSeesRunning(cur) == cur.running

\* Clock.start's branch on self.state.running
StartSeesRunning(cur) == cur.running

\* the loop's branch on self.state.running
LoopSeesRunning(cur) == cur.running

\* Component.set_state as called by the loop thread: there is a registered
\* event to invoke for the state
Notifies(new) == Differs(new, clock_state) /\ clock_event # "none"

\* Component.set_state as called by the loop thread
ClockSetState(new) ==
    IF Differs(new, clock_state)
    THEN clock_state' = new /\ notified' = <<new>>
    ELSE UNCHANGED <<clock_state, notified>>

\* the event application code registers on the clock before it is started,
\* with a trigger that holds of every state: no event, one that does
\* nothing, one that raises, one that calls start() and one that calls
\* stop() on the same clock
ClockEvents == {"none", "noop", "raise", "start", "stop"}

\* (mutation of Acquires: the lock admits the thread that holds it)
AcquiresReentrant(who) == state_lock = Free \/ state_lock = who

\* threading.Lock: acquire goes through when the lock is unlocked, whoever
\* holds it otherwise
Acquires(who) == state_lock = Free

\* where a loop thread is while Component.set_state invokes the event
InEvent(t) == thread_pc[t] \in {"resetEvent", "tickEvent", "finalEvent"}

\* where a loop thread is inside the start() or stop() its event has called
InEventCall(t) == thread_pc[t] \in {"eventStart", "eventStop"}

InitObserver ==
    /\ clock_event \in ClockEvents
    /\ loop_raised = {}

\* a clock without a registered event
ObserverAside == clock_event = "none"

InitClock ==
    /\ clock_state = ClockState(FALSE, 0)
    /\ tick_interval_seconds \in {None, SomeInterval}
    /\ run_thread = None
    /\ state_lock = Free
    /\ thread_pc = [t \in Threads |-> "unborn"]
    /\ caller_pc = [c \in Callers |-> "idle"]
    /\ joining = [c \in Callers |-> None]
    /\ notified = <<>>
    /\ outcome = [c \in Callers |-> "none"]
    /\ logged = [c \in Callers |-> "none"]
    /\ spawns_in_row = 0
    /\ stop_flipped = FALSE
    /\ spawned_before = [c \in Callers |-> {}]

(***************************************************************************)
(* rpi.gpio.lights: FourDigitSevenSegmentLED and the                       *)
(* SevenSegmentLedShiftRegister it renders through.  Characters are the    *)
(* digits 0 .. NChars - 1 of CHARACTER_SEGMENTS, None (a blank LED) and    *)
(* one value that is no key of CHARACTER_SEGMENTS.                         *)
(***************************************************************************)
NLeds == 4
Leds == 0 .. (NLeds - 1)
Characters == 0 .. (NChars - 1)
Undisplayable == 16
CharInputs == Characters \cup {None, Undisplayable}
RefreshThreads == 1 .. MaxDisplayCalls

\* the application threads that call set_state and stop_display_thread
DisplayCallers == 1 .. NDisplayCallers
MainCaller == 1

\* class Segment(Enum)
Segment == {"A", "B", "C", "D", "E", "F", "G", "DECIMAL_POINT"}

\* CHARACTER_SEGMENTS as the class body defines it (the digits)
InitialSegments(c) ==
    CASE c = 0 -> {"A", "B", "C", "D", "E", "F"}
      [] c = 1 -> {"B", "C"}
      [] c = 2 -> {"A", "B", "G", "E", "D"}
      [] c = 3 -> {"A", "B", "G", "C", "D"}
      [] c = 4 -> {"F", "G", "B", "C"}
      [] c = 5 -> {"A", "F", "G", "C", "D"}
      [] c = 6 -> {"A", "F", "E", "D", "C", "G"}
      [] c = 7 -> {"A", "B", "C"}
      [] c = 8 -> {"A", "F", "G", "C", "D", "E", "B"}
      [] c = 9 -> {"A", "F", "G", "B", "C"}

\* FourDigitSevenSegmentLED.State.__init__: the eight fields are stored as
\* they are given
FourDigitState(c0, d0, c1, d1, c2, d2, c3, d3) ==
    [i \in Leds |->
        CASE i = 0 -> [character |-> c0, decimal_point |-> d0]
          [] i = 1 -> [character |-> c1, decimal_point |-> d1]
          [] i = 2 -> [character |-> c2, decimal_point |-> d2]
          [] i = 3 -> [character |-> c3, decimal_point |-> d3]]

\* FourDigitSevenSegmentLED.State.get(led_idx)
Get(st, led_idx) == st[led_idx]

\* the State FourDigitSevenSegmentLED.__init__ passes to Component.__init__
BlankState == FourDigitState(None, FALSE, None, FALSE, None, FALSE, None, FALSE)

\* the arguments application code passes to display(...)
DisplayInputs ==
    {FourDigitState(c0, d0, c, FALSE, c, FALSE, c, FALSE) :
        c0 \in CharInputs, d0 \in BOOLEAN, c \in CharInputs}

\* SevenSegmentLedShiftRegister.State.__init__: the check of the character
SegmentStateRaises(character) ==
    character # None /\ character \notin DOMAIN character_segments

\* (mutation of Terminated: join returns at once)
TerminatedOrNot(t) == TRUE

\* Thread.join() returns once the thread has ended, by return or exception
Terminated(t) == refresh_pc[t] \in {"done", "KeyError", "ValueError"}

\* the Thread object set_state creates
NewRefreshThread ==
    CHOOSE t \in RefreshThreads :
        refresh_pc[t] = "unborn" /\ \A u \in RefreshThreads : u < t => refresh_pc[u] # "unborn"

\* where stop_display_thread returns to
AfterStop(c) == IF last_call[c] = "set_state" THEN "start" ELSE "idle"

InitDisplay ==
    /\ led_state = BlankState
    /\ display_thread = None
    /\ run_display_thread = FALSE
    /\ pins = [i \in Leds |-> "unset"]
    /\ character_segments = [c \in Characters |-> InitialSegments(c)]
    /\ written = {"unwritten"}
    /\ refresh_pc = [t \in RefreshThreads |-> "unborn"]
    /\ refresh_led = [t \in RefreshThreads |-> 0]
    /\ refresh_pin = [t \in RefreshThreads |-> 0]
    /\ display_pc = [c \in DisplayCallers |-> "idle"]
    /\ display_calls = 0
    /\ last_call = [c \in DisplayCallers |-> "none"]
    /\ started_in_call = [c \in DisplayCallers |-> 0]
    /\ display_joining = [c \in DisplayCallers |-> None]

\* application code calls display(...): the State is constructed, set_state
\* checks its type and commits it through Component.set_state
DisplaySetState(c) ==
    /\ UNCHANGED <<compVars, clockVars, kindVars, ledVars, segVars, obsVars>>
    /\ display_pc[c] = "idle"
    /\ display_calls < MaxDisplayCalls
    /\ \E st \in DisplayInputs :
          led_state' = IF Differs(st, led_state) THEN st ELSE led_state
    /\ display_pc' = [display_pc EXCEPT ![c] = "stop"]
    /\ display_calls' = display_calls + 1
    /\ last_call' = [last_call EXCEPT ![c] = "set_state"]
    /\ started_in_call' = [started_in_call EXCEPT ![c] = 0]
    /\ UNCHANGED <<display_thread, run_display_thread, pins, character_segments,
                   written, refresh_pc, refresh_led, refresh_pin, display_joining>>

\* application code calls stop_display_thread()
DisplayStop(c) ==
    /\ UNCHANGED <<compVars, clockVars, kindVars, ledVars, segVars, obsVars>>
    /\ display_pc[c] = "idle"
    /\ display_pc' = [display_pc EXCEPT ![c] = "stop"]
    /\ last_call' = [last_call EXCEPT ![c] = "stop_display_thread"]
    /\ UNCHANGED <<led_state, display_thread, run_display_thread, pins,
                   character_segments, written, refresh_pc, refresh_led,
                   refresh_pin, display_calls, started_in_call, display_joining>>

\* stop_display_thread: if self.display_thread is not None:
\* self.run_display_thread = False, and join() of self.display_thread is
\* called
StopDisplaySignal(c) ==
    /\ UNCHANGED <<compVars, clockVars, kindVars, ledVars, segVars, obsVars>>
    /\ display_pc[c] = "stop"
    /\ IF display_thread # None
       THEN /\ run_display_thread' = FALSE
            /\ display_joining' = [display_joining EXCEPT ![c] = display_thread]
            /\ display_pc' = [display_pc EXCEPT ![c] = "join"]
       ELSE /\ UNCHANGED <<run_display_thread, display_joining>>
            /\ display_pc' = [display_pc EXCEPT ![c] = AfterStop(c)]
    /\ UNCHANGED <<led_state, display_thread, pins, character_segments, written,
                   refresh_pc, refresh_led, refresh_pin, display_calls,
                   last_call, started_in_call>>

\* stop_display_thread: the join() returns
StopDisplayJoin(c) ==
    /\ UNCHANGED <<compVars, clockVars, kindVars, ledVars, segVars, obsVars>>
    /\ display_pc[c] = "join"
    /\ Terminated(display_joining[c])
    /\ display_pc' = [display_pc EXCEPT ![c] = AfterStop(c)]
    /\ display_joining' = [display_joining EXCEPT ![c] = None]
    /\ UNCHANGED <<led_state, display_thread, run_display_thread, pins,
                   character_segments, written, refresh_pc, refresh_led,
                   refresh_pin, display_calls, last_call, started_in_call>>

\* set_state: start a new display thread, and return
DisplayStartThread(c) ==
    /\ UNCHANGED <<compVars, clockVars, kindVars, ledVars, segVars, obsVars>>
    /\ display_pc[c] = "start"
    /\ run_display_thread' = TRUE
    /\ display_thread' = NewRefreshThread
    /\ refresh_pc' = [refresh_pc EXCEPT ![NewRefreshThread] = "while"]
    /\ started_in_call' = [started_in_call EXCEPT ![c] = started_in_call[c] + 1]
    /\ display_pc' = [display_pc EXCEPT ![c] = "idle"]
    /\ UNCHANGED <<led_state, pins, character_segments, written, refresh_led,
                   refresh_pin, display_calls, last_call, display_joining>>

\* display_thread_target: while self.run_display_thread
RefreshWhile(t) ==
    /\ UNCHANGED <<compVars, clockVars, kindVars, ledVars, segVars, obsVars>>
    /\ refresh_pc[t] = "while"
    /\ IF run_display_thread
       THEN /\ refresh_pc' = [refresh_pc EXCEPT ![t] = "pins"]
            /\ UNCHANGED refresh_led
       ELSE /\ refresh_pc' = [refresh_pc EXCEPT ![t] = "done"]
            /\ refresh_led' = [refresh_led EXCEPT ![t] = 0]
    /\ UNCHANGED <<led_state, display_thread, run_display_thread, pins,
                   character_segments, written, refresh_pin, display_pc,
                   display_calls, last_call, started_in_call,
                   display_joining>>

\* display_thread_target: one gpio.output of the for loop over the pins
RefreshPin(t) ==
    /\ UNCHANGED <<compVars, clockVars, kindVars, ledVars, segVars, obsVars>>
    /\ refresh_pc[t] = "pins"
    /\ pins' = [pins EXCEPT ![refresh_pin[t]] =
                   IF refresh_pin[t] = refresh_led[t] THEN "LOW" ELSE "HIGH"]
    /\ IF refresh_pin[t] + 1 < NLeds
       THEN /\ refresh_pin' = [refresh_pin EXCEPT ![t] = refresh_pin[t] + 1]
            /\ UNCHANGED refresh_pc
       ELSE /\ refresh_pin' = [refresh_pin EXCEPT ![t] = 0]
            /\ refresh_pc' = [refresh_pc EXCEPT ![t] = "shift"]
    /\ UNCHANGED <<led_state, display_thread, run_display_thread,
                   character_segments, written, refresh_led, display_pc,
                   display_calls, last_call, started_in_call,
                   display_joining>>

\* display_thread_target: self.led_shift_register.display(*self.state.get(led)),
\* that is SevenSegmentLedShiftRegister.State(...) and then set_state
RefreshShift(t) ==
    /\ UNCHANGED <<compVars, clockVars, kindVars, ledVars, segVars, obsVars>>
    /\ refresh_pc[t] = "shift"
    /\ LET g == Get(led_state, refresh_led[t])
           segments == character_segments[g.character]
                           \cup (IF g.decimal_point THEN {"DECIMAL_POINT"} ELSE {})
       IN IF SegmentStateRaises(g.character)
          THEN /\ refresh_pc' = [refresh_pc EXCEPT ![t] = "ValueError"]
               /\ refresh_led' = [refresh_led EXCEPT ![t] = 0]
               /\ UNCHANGED <<character_segments, written>>
          ELSE IF g.character \notin DOMAIN character_segments
          THEN /\ refresh_pc' = [refresh_pc EXCEPT ![t] = "KeyError"]
               /\ refresh_led' = [refresh_led EXCEPT ![t] = 0]
               /\ UNCHANGED <<character_segments, written>>
          ELSE /\ character_segments' =
                     [character_segments EXCEPT ![g.character] = segments]
               /\ written' = segments
               /\ refresh_pc' = [refresh_pc EXCEPT ![t] = "sleep"]
               /\ UNCHANGED refresh_led
    /\ UNCHANGED <<led_state, display_thread, run_display_thread, pins,
                   refresh_pin, display_pc, display_calls, last_call,
                   started_in_call,
                   display_joining>>

\* display_thread_target: time.sleep(...), led = (led + 1) % len(pins)
RefreshSleep(t) ==
    /\ UNCHANGED <<compVars, clockVars, kindVars, ledVars, segVars, obsVars>>
    /\ refresh_pc[t] = "sleep"
    /\ refresh_led' = [refresh_led EXCEPT ![t] = (refresh_led[t] + 1) % NLeds]
    /\ refresh_pc' = [refresh_pc EXCEPT ![t] = "while"]
    /\ UNCHANGED <<led_state, display_thread, run_display_thread, pins,
                   character_segments, written, refresh_pin, display_pc,
                   display_calls, last_call, started_in_call,
                   display_joining>>

\* the steps of an application thread inside set_state or
\* stop_display_thread
DisplayCall(c) ==
    \/ DisplaySetState(c) \/ DisplayStop(c) \/ StopDisplaySignal(c)
    \/ StopDisplayJoin(c) \/ DisplayStartThread(c)

\* the steps of the refresh threads
Refresh ==
    \E t \in RefreshThreads :
        RefreshWhile(t) \/ RefreshPin(t) \/ RefreshShift(t) \/ RefreshSleep(t)

\* the display called from one application thread
NextDisplay == DisplayCall(MainCaller) \/ Refresh

\* the display called from several application threads
NextDisplayConcurrent == (\E c \in DisplayCallers : DisplayCall(c)) \/ Refresh


(***************************************************************************)
(* The State kinds of rpi.gpio and their comparison.  A State is a kind    *)
(* with the value of its fields; a component holds a State of its own      *)
(* kind.                                                                   *)
(***************************************************************************)
Kinds == {"Clock", "LED", "LedBar", "MulticoloredLED",
          "SevenSegmentLedShiftRegister", "FourDigitSevenSegmentLED",
          "DcMotor", "Thermistor"}

KindStates == [kind : Kinds, value : States]

\* the State.__eq__ methods that begin with "if not isinstance(other, ...):
\* raise ValueError"; Clock.State.__eq__ compares other.running and
\* other.tick at once
EqChecksType(kind) == kind # "Clock"

\* the components whose set_state begins with that check of its argument
SetStateChecksType(kind) ==
    kind \in {"LED", "SevenSegmentLedShiftRegister",
              "FourDigitSevenSegmentLED", "DcMotor"}

\* the components whose set_state calls Component.set_state
SetStateCommits(kind) == kind # "SevenSegmentLedShiftRegister"

\* the components whose set_state drives hardware after the commit
SetStateWrites(kind) ==
    kind \in {"LED", "SevenSegmentLedShiftRegister",
              "FourDigitSevenSegmentLED", "DcMotor"}

\* a == b: type(a).__eq__(a, b)
StateEq(a, b) ==
    IF a.kind = b.kind THEN (IF a.value = b.value THEN "True" ELSE "False")
    ELSE IF EqChecksType(a.kind) THEN "ValueError"
    ELSE "AttributeError"

\* a != b: Component.State.__ne__ returns not self.__eq__(other)
StateNe(a, b) ==
    CASE StateEq(a, b) = "True" -> "False"
      [] StateEq(a, b) = "False" -> "True"
      [] OTHER -> StateEq(a, b)

InitKinds ==
    /\ eq_left \in KindStates
    /\ eq_right \in KindStates
    /\ eq_result = "none"
    /\ kind_state \in {st \in KindStates : st.value = 0}
    /\ kind_outcome = "none"
    /\ kind_wrote = FALSE
    /\ kind_last = [arg |-> kind_state, old |-> kind_state]

\* the State kinds left aside: the one component is a Clock, the two
\* objects to compare are its initial State
KindsAside ==
    /\ kind_state.kind = "Clock"
    /\ eq_left = kind_state
    /\ eq_right = kind_state

\* application code evaluates eq_left == eq_right or eq_left != eq_right
Compare ==
    /\ UNCHANGED <<compVars, clockVars, dispVars, ledVars, segVars, obsVars>>
    /\ eq_result = "none"
    /\ \/ eq_result' = StateEq(eq_left, eq_right)
       \/ eq_result' = StateNe(eq_left, eq_right)
    /\ UNCHANGED <<eq_left, eq_right, kind_state, kind_outcome, kind_wrote,
                   kind_last>>

\* application code calls set_state(st) on the component, with a State of
\* any kind
KindSetState ==
    /\ UNCHANGED <<compVars, clockVars, dispVars, ledVars, segVars, obsVars>>
    /\ \E st \in KindStates :
          /\ kind_last' = [arg |-> st, old |-> kind_state]
          /\ IF SetStateChecksType(kind_state.kind) /\ st.kind # kind_state.kind
             THEN /\ kind_outcome' = "ValueError"
                  /\ kind_wrote' = FALSE
                  /\ UNCHANGED kind_state
             ELSE IF ~SetStateCommits(kind_state.kind)
             THEN /\ kind_outcome' = "returned"
                  /\ kind_wrote' = SetStateWrites(kind_state.kind)
                  /\ UNCHANGED kind_state
             ELSE IF StateNe(st, kind_state) \in {"ValueError", "AttributeError"}
             THEN /\ kind_outcome' = StateNe(st, kind_state)
                  /\ kind_wrote' = FALSE
                  /\ UNCHANGED kind_state
             ELSE /\ kind_outcome' = "returned"
                  /\ kind_wrote' = SetStateWrites(kind_state.kind)
                  /\ kind_state' = IF StateNe(st, kind_state) = "True"
                                   THEN st ELSE kind_state
    /\ UNCHANGED <<eq_left, eq_right, eq_result>>

NextKinds == Compare \/ KindSetState

(***************************************************************************)
(* rpi.gpio.lights.LED.  A trigger is absent ("none") or tests the new     *)
(* state ("on": lambda s: s.on, "off": lambda s: not s.on); an event does  *)
(* nothing or calls turn_on() or turn_off() on the LED itself.             *)
(***************************************************************************)
LedTriggers == {"none", "on", "off"}

LedEventBodies == {"noop", "turn_on", "turn_off"}

\* trigger is None or trigger(self.state)
LedFires(trigger, on) ==
    \/ trigger = "none"
    \/ trigger = "on" /\ on
    \/ trigger = "off" /\ ~on

\* LED.set_state: the level written to output_pin for state.on
Level(on, reverse) ==
    IF on THEN (IF reverse THEN "LOW" ELSE "HIGH")
    ELSE (IF reverse THEN "HIGH" ELSE "LOW")

LedTop == led_frames[Len(led_frames)]
LedBelow == SubSeq(led_frames, 1, Len(led_frames) - 1)

\* LED.set_state(LED.State(on)) called with the activations `stack`
\* suspended below it: the type check passes, Component.set_state commits
\* and starts its for loop, or finds the state equal and returns
LedSetStateEffect(on, stack) ==
    /\ led_calls' = led_calls + 1
    /\ IF Differs(on, led_on)
       THEN /\ led_on' = on
            /\ led_frames' = Append(stack, [arg |-> on, idx |-> 1, phase |-> "loop"])
       ELSE /\ UNCHANGED led_on
            /\ led_frames' = Append(stack, [arg |-> on, idx |-> 1, phase |-> "write"])

\* LED.__init__: state off, and self.set_state(self.state) writes the pin
InitLed ==
    /\ led_on = FALSE
    /\ led_reverse \in BOOLEAN
    /\ led_pin = Level(led_on, led_reverse)
    /\ led_events = <<>>
    /\ led_frames = <<>>
    /\ led_calls = 0

LedAside == led_reverse = FALSE

\* application code calls led.on(trigger, event)
LedOn ==
    /\ UNCHANGED <<compVars, clockVars, dispVars, kindVars, segVars, obsVars>>
    /\ led_frames = <<>>
    /\ Len(led_events) < MaxRegs
    /\ \E trigger \in LedTriggers, body \in LedEventBodies :
          led_events' = OnAppend(led_events, [trigger |-> trigger, event |-> body])
    /\ UNCHANGED <<led_on, led_reverse, led_pin, led_frames, led_calls>>

\* application code calls led.set_state(LED.State(on)), turn_on() or turn_off()
LedSetState ==
    /\ UNCHANGED <<compVars, clockVars, dispVars, kindVars, segVars, obsVars>>
    /\ led_frames = <<>>
    /\ led_calls < MaxCalls
    /\ \E on \in BOOLEAN : LedSetStateEffect(on, <<>>)
    /\ UNCHANGED <<led_reverse, led_pin, led_events>>

\* Component.set_state: one iteration of the for loop
LedDispatch ==
    /\ UNCHANGED <<compVars, clockVars, dispVars, kindVars, segVars, obsVars>>
    /\ led_frames # <<>>
    /\ LedTop.phase = "loop"
    /\ IterHasNext(LedTop.idx, led_events)
    /\ IF LedFires(led_events[LedTop.idx].trigger, led_on)
       THEN led_frames' = Append(LedBelow, [LedTop EXCEPT !.phase = "event"])
       ELSE led_frames' = Append(LedBelow, [LedTop EXCEPT !.idx = IterNext(LedTop.idx)])
    /\ UNCHANGED <<led_on, led_reverse, led_pin, led_events, led_calls>>

\* the body of the invoked event runs
LedEventBody ==
    /\ UNCHANGED <<compVars, clockVars, dispVars, kindVars, segVars, obsVars>>
    /\ led_frames # <<>>
    /\ LedTop.phase = "event"
    /\ LET body == led_events[LedTop.idx].event
           resumed == Append(LedBelow, [LedTop EXCEPT !.idx = IterNext(LedTop.idx),
                                                      !.phase = "loop"])
       IN IF body = "noop"
          THEN /\ led_frames' = resumed
               /\ UNCHANGED <<led_on, led_calls>>
          ELSE /\ led_calls < MaxCalls
               /\ LedSetStateEffect(body = "turn_on", resumed)
    /\ UNCHANGED <<led_reverse, led_pin, led_events>>

\* Component.set_state has returned: LED.set_state writes the level of its
\* argument to the pin and returns
LedWrite ==
    /\ UNCHANGED <<compVars, clockVars, dispVars, kindVars, segVars, obsVars>>
    /\ led_frames # <<>>
    /\ \/ LedTop.phase = "write"
       \/ LedTop.phase = "loop" /\ ~IterHasNext(LedTop.idx, led_events)
    /\ led_pin' = Level(LedTop.arg, led_reverse)
    /\ led_frames' = LedBelow
    /\ UNCHANGED <<led_on, led_reverse, led_events, led_calls>>

NextLed == LedOn \/ LedSetState \/ LedDispatch \/ LedEventBody \/ LedWrite

(***************************************************************************)
(* rpi.gpio.lights.SevenSegmentLedShiftRegister used on its own: the       *)
(* application calls display(character, decimal_point) and on(None, event).*)
(***************************************************************************)
\* the State SevenSegmentLedShiftRegister.__init__ passes to Component.__init__
SegmentBlank == [character |-> None, decimal_point |-> FALSE]

InitSegment ==
    /\ seg_state = SegmentBlank
    /\ seg_registered = FALSE
    /\ seg_fired = FALSE
    /\ seg_outcome = "none"
    /\ seg_last = SegmentBlank
    /\ seg_observed = FALSE

\* application code calls on(None, event) on the seven-segment component
SegmentOn ==
    /\ UNCHANGED <<compVars, clockVars, dispVars, kindVars, ledVars, obsVars>>
    /\ ~seg_registered
    /\ seg_registered' = TRUE
    /\ UNCHANGED <<seg_state, seg_fired, seg_outcome, seg_last, seg_observed>>

\* application code calls display(character, decimal_point): the State is
\* constructed and passed to set_state, which looks the segments up, appends
\* DECIMAL_POINT to them and writes the bit pattern; Component.set_state
\* is not called
SegmentDisplay ==
    /\ UNCHANGED <<compVars, clockVars, kindVars, ledVars, obsVars>>
    /\ \E c \in CharInputs, d \in BOOLEAN :
          /\ seg_last' = [character |-> c, decimal_point |-> d]
          /\ IF SegmentStateRaises(c)
             THEN /\ seg_outcome' = "ValueError"
                  /\ UNCHANGED <<character_segments, written>>
             ELSE IF c \notin DOMAIN character_segments
             THEN /\ seg_outcome' = "KeyError"
                  /\ UNCHANGED <<character_segments, written>>
             ELSE LET segments == character_segments[c]
                                      \cup (IF d THEN {"DECIMAL_POINT"} ELSE {})
                  IN /\ character_segments' = [character_segments EXCEPT ![c] = segments]
                     /\ written' = segments
                     /\ seg_outcome' = "returned"
    /\ seg_observed' = seg_registered
    /\ UNCHANGED <<seg_state, seg_registered, seg_fired>>
    /\ UNCHANGED <<led_state, display_thread, run_display_thread, pins,
                   refresh_pc, refresh_led, refresh_pin, display_pc,
                   display_calls, last_call, started_in_call,
                   display_joining>>

NextSegment == SegmentOn \/ SegmentDisplay

Init ==
    /\ InitComponent /\ InitClock /\ InitDisplay /\ InitKinds /\ InitLed
    /\ InitSegment /\ InitObserver

\* a component on its own (the clock of the model is never started)
InitAtComponent ==
    /\ Init /\ tick_interval_seconds = None /\ KindsAside /\ LedAside
    /\ ObserverAside

\* a caller enters Clock.start
StartCall(c) ==
    /\ UNCHANGED <<compVars, dispVars, kindVars, ledVars, segVars, obsVars>>
    /\ caller_pc[c] = "idle"
    /\ CanCreate
    /\ caller_pc' = [caller_pc EXCEPT ![c] = "start"]
    /\ outcome' = [outcome EXCEPT ![c] = "none"]
    /\ logged' = [logged EXCEPT ![c] = "none"]
    /\ UNCHANGED <<clock_state, tick_interval_seconds, run_thread, state_lock,
                   thread_pc, joining, notified, spawns_in_row, stop_flipped, spawned_before>>

\* start: with self.state_lock
StartAcquire(c) ==
    /\ UNCHANGED <<compVars, dispVars, kindVars, ledVars, segVars, obsVars>>
    /\ caller_pc[c] = "start"
    /\ state_lock = Free
    /\ state_lock' = Caller(c)
    /\ caller_pc' = [caller_pc EXCEPT ![c] = "startLocked"]
    /\ UNCHANGED <<clock_state, tick_interval_seconds, run_thread, thread_pc,
                   joining, notified, outcome, logged, spawns_in_row,
                   stop_flipped, spawned_before>>

\* start: if self.state.running: warn, else self.run_thread = Thread(...)
StartCheck(c) ==
    /\ UNCHANGED <<compVars, dispVars, kindVars, ledVars, segVars, obsVars>>
    /\ caller_pc[c] = "startLocked"
    /\ IF StartSeesRunning(clock_state)
       THEN /\ logged' = [logged EXCEPT ![c] = "start while running"]
            /\ outcome' = [outcome EXCEPT ![c] = "returned"]
            /\ state_lock' = Free
            /\ caller_pc' = [caller_pc EXCEPT ![c] = "idle"]
            /\ UNCHANGED <<run_thread, thread_pc, spawns_in_row, stop_flipped>>
       ELSE /\ run_thread' = NewThread
            /\ thread_pc' = [thread_pc EXCEPT ![NewThread] = "created"]
            /\ caller_pc' = [caller_pc EXCEPT ![c] = "startSpawn"]
            /\ spawns_in_row' = spawns_in_row + 1
            /\ stop_flipped' = FALSE
            /\ UNCHANGED <<state_lock, outcome, logged>>
    /\ UNCHANGED <<clock_state, tick_interval_seconds, joining, notified,
                   spawned_before>>

\* start: self.run_thread.start(), leave the with block, return
StartSpawn(c) ==
    /\ UNCHANGED <<compVars, dispVars, kindVars, ledVars, segVars, obsVars>>
    /\ caller_pc[c] = "startSpawn"
    /\ thread_pc' = [thread_pc EXCEPT ![run_thread] = "reset"]
    /\ state_lock' = Free
    /\ caller_pc' = [caller_pc EXCEPT ![c] = "idle"]
    /\ outcome' = [outcome EXCEPT ![c] = "returned"]
    /\ UNCHANGED <<clock_state, tick_interval_seconds, run_thread, joining,
                   notified, logged, spawns_in_row, stop_flipped, spawned_before>>

\* a caller enters Clock.stop
StopCall(c) ==
    /\ UNCHANGED <<compVars, dispVars, kindVars, ledVars, segVars, obsVars>>
    /\ caller_pc[c] = "idle"
    /\ caller_pc' = [caller_pc EXCEPT ![c] = "stop"]
    /\ outcome' = [outcome EXCEPT ![c] = "none"]
    /\ logged' = [logged EXCEPT ![c] = "none"]
    /\ spawns_in_row' = 0
    /\ spawned_before' = [spawned_before EXCEPT ![c] = {t \in Threads : Started(t)}]
    /\ UNCHANGED <<clock_state, tick_interval_seconds, run_thread, state_lock,
                   thread_pc, joining, notified, stop_flipped>>

\* stop: with self.state_lock
StopAcquire(c) ==
    /\ UNCHANGED <<compVars, dispVars, kindVars, ledVars, segVars, obsVars>>
    /\ caller_pc[c] = "stop"
    /\ state_lock = Free
    /\ state_lock' = Caller(c)
    /\ caller_pc' = [caller_pc EXCEPT ![c] = "stopLocked"]
    /\ UNCHANGED <<clock_state, tick_interval_seconds, run_thread, thread_pc,
                   joining, notified, outcome, logged, spawns_in_row,
                   stop_flipped, spawned_before>>

\* stop: if self.state.running: self.state.running = False, else warn;
\* leave the with block
StopCheck(c) ==
    /\ UNCHANGED <<compVars, dispVars, kindVars, ledVars, segVars, obsVars>>
    /\ caller_pc[c] = "stopLocked"
    /\ IF StopSeesRunning(clock_state)
       THEN /\ clock_state' = [clock_state EXCEPT !.running = FALSE]
            /\ stop_flipped' = TRUE
            /\ UNCHANGED logged
       ELSE /\ logged' = [logged EXCEPT ![c] = "stop while stopped"]
            /\ UNCHANGED <<clock_state, stop_flipped>>
    /\ state_lock' = Free
    /\ caller_pc' = [caller_pc EXCEPT ![c] = "stopJoin"]
    /\ UNCHANGED <<tick_interval_seconds, run_thread, thread_pc, joining,
                   notified, outcome, spawns_in_row, spawned_before>>

\* stop: self.run_thread.join() is called
StopJoin(c) ==
    /\ UNCHANGED <<compVars, dispVars, kindVars, ledVars, segVars, obsVars>>
    /\ caller_pc[c] = "stopJoin"
    /\ IF run_thread = None
       THEN /\ outcome' = [outcome EXCEPT ![c] = "AttributeError"]
            /\ caller_pc' = [caller_pc EXCEPT ![c] = "idle"]
            /\ spawned_before' = [spawned_before EXCEPT ![c] = {}]
            /\ UNCHANGED joining
       ELSE IF thread_pc[run_thread] = "created"
       THEN /\ outcome' = [outcome EXCEPT ![c] = "RuntimeError"]
            /\ caller_pc' = [caller_pc EXCEPT ![c] = "idle"]
            /\ spawned_before' = [spawned_before EXCEPT ![c] = {}]
            /\ UNCHANGED joining
       ELSE /\ joining' = [joining EXCEPT ![c] = run_thread]
            /\ caller_pc' = [caller_pc EXCEPT ![c] = "joining"]
            /\ UNCHANGED <<outcome, spawned_before>>
    /\ UNCHANGED <<clock_state, tick_interval_seconds, run_thread, state_lock,
                   thread_pc, notified, logged, spawns_in_row, stop_flipped>>

\* stop: join() returns, 'Stopped clock.' is logged, stop returns
JoinReturn(c) ==
    /\ UNCHANGED <<compVars, dispVars, kindVars, ledVars, segVars, obsVars>>
    /\ caller_pc[c] = "joining"
    /\ thread_pc[joining[c]] = "done"
    /\ caller_pc' = [caller_pc EXCEPT ![c] = "idle"]
    /\ joining' = [joining EXCEPT ![c] = None]
    /\ outcome' = [outcome EXCEPT ![c] = "returned"]
    /\ spawned_before' = [spawned_before EXCEPT ![c] = {}]
    /\ UNCHANGED <<clock_state, tick_interval_seconds, run_thread, state_lock,
                   thread_pc, notified, logged, spawns_in_row, stop_flipped>>

loopUnchanged == <<tick_interval_seconds, run_thread, caller_pc, joining, outcome,
                   logged, spawns_in_row, stop_flipped,
                   spawned_before>>

\* __run__: a with self.state_lock of the loop thread is entered, that of
\* __run__ itself or that of the start() or stop() its event has called
LoopAcquire(t) ==
    /\ UNCHANGED <<compVars, dispVars, kindVars, ledVars, segVars, obsVars>>
    /\ thread_pc[t] \in {"reset", "tick", "final"} \/ InEventCall(t)
    /\ Acquires(Loop(t))
    /\ thread_pc[t] = "tick" /\ LoopSeesRunning(clock_state) => clock_state.tick < MaxTick
    /\ state_lock' = Loop(t)
    /\ thread_pc' = [thread_pc EXCEPT ![t] =
           CASE thread_pc[t] = "reset" -> "resetLocked"
             [] thread_pc[t] = "tick" -> "tickLocked"
             [] thread_pc[t] = "final" -> "finalLocked"
             [] InEventCall(t) -> "eventLocked"]
    /\ UNCHANGED <<clock_state, notified>>
    /\ UNCHANGED loopUnchanged

\* __run__: reset state (running = True, tick = 0)
LoopReset(t) ==
    /\ UNCHANGED <<compVars, dispVars, kindVars, ledVars, segVars, obsVars>>
    /\ thread_pc[t] = "resetLocked"
    /\ ClockSetState(ResetState(clock_state))
    /\ IF Notifies(ResetState(clock_state))
       THEN /\ UNCHANGED state_lock
            /\ thread_pc' = [thread_pc EXCEPT ![t] = "resetEvent"]
       ELSE /\ state_lock' = Free
            /\ thread_pc' = [thread_pc EXCEPT ![t] = LoopTop]
    /\ UNCHANGED loopUnchanged

\* __run__: time.sleep(self.tick_interval_seconds)
LoopSleep(t) ==
    /\ UNCHANGED <<compVars, dispVars, kindVars, ledVars, segVars, obsVars>>
    /\ thread_pc[t] = "sleep"
    /\ thread_pc' = [thread_pc EXCEPT ![t] = "tick"]
    /\ UNCHANGED <<clock_state, notified, state_lock>>
    /\ UNCHANGED loopUnchanged

\* __run__: if self.state.running: tick += 1, else loop = False
LoopTick(t) ==
    /\ UNCHANGED <<compVars, dispVars, kindVars, ledVars, segVars, obsVars>>
    /\ thread_pc[t] = "tickLocked"
    /\ IF LoopSeesRunning(clock_state)
       THEN /\ ClockSetState(TickState(clock_state))
            /\ IF Notifies(TickState(clock_state))
               THEN /\ UNCHANGED state_lock
                    /\ thread_pc' = [thread_pc EXCEPT ![t] = "tickEvent"]
               ELSE /\ state_lock' = Free
                    /\ thread_pc' = [thread_pc EXCEPT ![t] = LoopTop]
       ELSE /\ thread_pc' = [thread_pc EXCEPT ![t] = "final"]
            /\ state_lock' = Free
            /\ UNCHANGED <<clock_state, notified>>
    /\ UNCHANGED loopUnchanged

\* __run__: set final state (running = False), the thread ends
LoopFinal(t) ==
    /\ UNCHANGED <<compVars, dispVars, kindVars, ledVars, segVars, obsVars>>
    /\ thread_pc[t] = "finalLocked"
    /\ ClockSetState(FinalState(clock_state))
    /\ IF Notifies(FinalState(clock_state))
       THEN /\ UNCHANGED state_lock
            /\ thread_pc' = [thread_pc EXCEPT ![t] = "finalEvent"]
       ELSE /\ state_lock' = Free
            /\ thread_pc' = [thread_pc EXCEPT ![t] = "done"]
    /\ UNCHANGED loopUnchanged

\* Component.set_state in the loop thread invokes the registered event,
\* inside the with self.state_lock of __run__: the event returns, or it
\* raises (the exception leaves the with block and ends the thread), or it
\* calls start() or stop() on the clock
LoopEvent(t) ==
    /\ UNCHANGED <<compVars, dispVars, kindVars, ledVars, segVars>>
    /\ InEvent(t)
    /\ CASE clock_event = "noop" ->
              /\ state_lock' = Free
              /\ thread_pc' = [thread_pc EXCEPT ![t] =
                     IF thread_pc[t] = "finalEvent" THEN "done" ELSE LoopTop]
              /\ UNCHANGED loop_raised
         [] clock_event = "raise" ->
              /\ state_lock' = Free
              /\ thread_pc' = [thread_pc EXCEPT ![t] = "done"]
              /\ loop_raised' = loop_raised \cup {t}
         [] clock_event = "start" ->
              /\ thread_pc' = [thread_pc EXCEPT ![t] = "eventStart"]
              /\ UNCHANGED <<state_lock, loop_raised>>
         [] clock_event = "stop" ->
              /\ thread_pc' = [thread_pc EXCEPT ![t] = "eventStop"]
              /\ UNCHANGED <<state_lock, loop_raised>>
    /\ UNCHANGED <<clock_state, notified, clock_event>>
    /\ UNCHANGED loopUnchanged

Next == On \/ SetState \/ Dispatch \/ EventBody \/ Return

Spec == InitAtComponent /\ [][Next]_vars

NextClock ==
    \/ \E c \in Callers :
          \/ StartCall(c) \/ StartAcquire(c) \/ StartCheck(c) \/ StartSpawn(c)
          \/ StopCall(c) \/ StopAcquire(c) \/ StopCheck(c) \/ StopJoin(c)
          \/ JoinReturn(c)
    \/ \E t \in Threads :
          \/ LoopAcquire(t) \/ LoopReset(t) \/ LoopSleep(t) \/ LoopTick(t)
          \/ LoopFinal(t)

InitAtClock == Init /\ state = 0 /\ KindsAside /\ LedAside /\ ObserverAside

SpecClock == InitAtClock /\ [][NextClock]_vars

\* the clock constructed with a tick interval and with an event registered
\* on it
NextClockEvents == NextClock \/ \E t \in Threads : LoopEvent(t)

InitAtClockEvents ==
    /\ Init /\ state = 0 /\ KindsAside /\ LedAside
    /\ tick_interval_seconds = SomeInterval /\ ~ObserverAside

SpecClockEvents == InitAtClockEvents /\ [][NextClockEvents]_vars

\* __run__: with self.state_lock, taken by an iteration whose tick is past
\* MaxTick (the model counts ticks up to MaxTick and no further)
LoopSpin(t) ==
    /\ UNCHANGED <<compVars, dispVars, kindVars, ledVars, segVars, obsVars>>
    /\ thread_pc[t] = "tick"
    /\ state_lock = Free
    /\ LoopSeesRunning(clock_state)
    /\ clock_state.tick >= MaxTick
    /\ state_lock' = Loop(t)
    /\ thread_pc' = [thread_pc EXCEPT ![t] = "spin"]
    /\ UNCHANGED <<clock_state, notified>>
    /\ UNCHANGED loopUnchanged

\* __run__: the iteration past MaxTick releases the lock and loops again
LoopSpinBack(t) ==
    /\ UNCHANGED <<compVars, dispVars, kindVars, ledVars, segVars, obsVars>>
    /\ thread_pc[t] = "spin"
    /\ state_lock' = Free
    /\ thread_pc' = [thread_pc EXCEPT ![t] = LoopTop]
    /\ UNCHANGED <<clock_state, notified>>
    /\ UNCHANGED loopUnchanged

NextClockFair ==
    \/ NextClock
    \/ \E t \in Threads : LoopSpin(t) \/ LoopSpinBack(t)

\* the steps a caller takes inside start() or stop() without waiting for
\* state_lock
CallerStep(c) ==
    \/ StartCheck(c) \/ StartSpawn(c) \/ StopCheck(c) \/ StopJoin(c)
    \/ JoinReturn(c)

\* a caller's with self.state_lock
CallerAcquire(c) == StartAcquire(c) \/ StopAcquire(c)

\* the steps of a loop thread that do not wait for state_lock
LoopStep(t) ==
    \/ LoopReset(t) \/ LoopSleep(t) \/ LoopTick(t) \/ LoopFinal(t)
    \/ LoopSpinBack(t)

\* a loop thread's with self.state_lock
LoopLock(t) == LoopAcquire(t) \/ LoopSpin(t)

\* Scheduling: a started thread and a caller inside start() or stop() keep
\* running (weak fairness of their steps), and a thread that waits for
\* state_lock gets it when it is released again and again (strong fairness
\* of the acquisitions).  When the application calls start() or stop() is
\* left open.
ClockFairness ==
    /\ \A c \in Callers : WF_vars(CallerStep(c)) /\ SF_vars(CallerAcquire(c))
    /\ \A t \in Threads : WF_vars(LoopStep(t)) /\ SF_vars(LoopLock(t))

SpecClockFair == InitAtClock /\ [][NextClockFair]_vars /\ ClockFairness

InitAtDisplay ==
    /\ Init /\ state = 0 /\ tick_interval_seconds = None
    /\ KindsAside /\ LedAside /\ ObserverAside

InitAtKinds ==
    /\ Init /\ state = 0 /\ tick_interval_seconds = None /\ LedAside
    /\ ObserverAside

InitAtLed ==
    /\ Init /\ state = 0 /\ tick_interval_seconds = None /\ KindsAside
    /\ ObserverAside

SpecLed == InitAtLed /\ [][NextLed]_vars

InitAtSegment ==
    /\ Init /\ state = 0 /\ tick_interval_seconds = None /\ KindsAside /\ LedAside
    /\ ObserverAside

SpecSegment == InitAtSegment /\ [][NextSegment]_vars

SpecKinds == InitAtKinds /\ [][NextKinds]_vars

SpecDisplay == InitAtDisplay /\ [][NextDisplay]_vars

SpecDisplayConcurrent == InitAtDisplay /\ [][NextDisplayConcurrent]_vars

(***************************************************************************)
(* Properties of the Component contract.                                   *)
(***************************************************************************)
RegOf(id) == CHOOSE r \in {trigger_events[p] : p \in DOMAIN trigger_events} : r.id = id

FiredIn(t) == {i \in DOMAIN fired : fired[i].trans = t}

\* C1 (idempotence): a set_state(s) call, outer or nested, whose argument
\* equals the current state commits nothing, leaves the stored state as it
\* is, invokes no event and starts no dispatch, whatever is registered.
C1_Idempotence ==
    [][(ncalls' = ncalls + 1 /\ last_set'.arg = state)
         => /\ state' = state
            /\ committed' = committed
            /\ fired' = fired
            /\ Len(frames') <= Len(frames)]_vars

C1_Witness ==
    /\ ncalls >= 1
    /\ last_set.arg = last_set.old
    /\ frames = <<>>
    /\ \E p \in DOMAIN trigger_events : trigger_events[p].trigger = None

\* The scenario of C2: the component was constructed with s1, exactly one
\* registration on(None, event) was made before the one and only
\* set_state(s2) call, s2 # s1, and that call has returned.
C2_Scenario ==
    /\ frames = <<>>
    /\ ncalls = 1
    /\ Len(committed) = 1
    /\ Len(registered_at) >= 1
    /\ registered_at[1] = 0
    /\ \A id \in DOMAIN registered_at : id > 1 => registered_at[id] >= 1
    /\ RegOf(1).trigger = None

\* C2 (change triggers notify): in that scenario the event was invoked
\* exactly once and get_state() is s2.
C2_ChangeTriggersNotify ==
    C2_Scenario =>
        /\ Cardinality({i \in DOMAIN fired : fired[i].id = 1}) = 1
        /\ state = last_set.arg
        /\ state # last_set.old

C2_Witness == C2_Scenario /\ fired # <<>>

\* C3 (predicate gating): every event invocation made for a transition
\* belongs to a registration whose trigger is absent or returns true for
\* the new state of that transition.
C3_PredicateGating ==
    \A i \in DOMAIN fired :
        Fires(RegOf(fired[i].id).trigger, committed[fired[i].trans])

\* C4 (registration order): the invocations made for one transition follow
\* the order in which on() registered the events, no event is invoked twice
\* for it, and the for loop skips no registration without a trigger.
C4_RegistrationOrder ==
    /\ \A i, j \in DOMAIN fired :
          (i < j /\ fired[i].trans = fired[j].trans) => fired[i].id < fired[j].id
    /\ \A f \in DOMAIN frames : \A p \in 1 .. (frames[f].idx - 1) :
          trigger_events[p].trigger = None
              => \E i \in FiredIn(frames[f].trans) : fired[i].id = trigger_events[p].id

C4_Witness ==
    \E t \in DOMAIN committed :
        /\ Cardinality(FiredIn(t)) >= 2
        /\ \A f \in DOMAIN frames : frames[f].trans # t

\* C5 (no retroactive firing): an event is only invoked for transitions
\* committed after the on() call that registered it.
C5_NoRetroactiveFiring ==
    \A i \in DOMAIN fired : registered_at[fired[i].id] < fired[i].trans

(***************************************************************************)
(* Properties of the Clock.                                                *)
(***************************************************************************)
NeverStarted == run_thread = None /\ \A c \in Callers : ~InStart(c)

\* C6 (clock monotonicity): whenever the clock's state changes and it is
\* running afterwards, the tick is 0 if the clock was stopped before (a
\* start) and exactly one more than before if it was already running.
C6_ClockMonotonicity ==
    [][(clock_state' # clock_state /\ clock_state'.running)
         => clock_state'.tick = (IF clock_state.running
                                 THEN clock_state.tick + 1 ELSE 0)]_vars

\* C7 (no tick after stop): from the moment stop() has cleared running under
\* the lock until the next start() holds the lock, the tick does not change.
C7_NoTickAfterStop ==
    [][stop_flipped => clock_state'.tick = clock_state.tick]_vars

\* C8 (start twice): start() calls that follow one another with no stop()
\* call in between spawn at most one loop thread.
C8_OneLoopPerStart == spawns_in_row <= 1

\* C9 (stop before any start): while no start() was ever called, no stop()
\* call has raised and the state is still (running=false, tick=0).
C9_StopNeverStarted ==
    NeverStarted =>
        /\ \A c \in Callers : outcome[c] \notin {"AttributeError", "RuntimeError"}
        /\ clock_state = ClockState(FALSE, 0)

\* C10 (join semantics): when a stop() call returns, every loop thread that
\* was started before that stop() was called has finished.
C10_StopJoins ==
    [][\A c \in Callers :
          (caller_pc[c] = "joining" /\ caller_pc'[c] = "idle")
              => \A t \in spawned_before[c] : thread_pc'[t] = "done"]_vars

\* C11 (termination): under fair scheduling every stop() issued after a
\* start() has returned eventually returns, also when it is issued before
\* the loop thread has committed Running(tick = 0).  Stated for the clock
\* with at most one live loop thread, the case a single start() produces.
C11_StopReturns ==
    \A c \in Callers :
        (/\ caller_pc[c] = "stop"
         /\ run_thread # None
         /\ Cardinality({t \in Threads : thread_pc[t] \notin {"unborn", "done"}}) <= 1)
            ~> (caller_pc[c] = "idle" /\ outcome[c] = "returned")

\* C12 (final transition): the step with which a loop thread leaves
\* __run__ commits a Stopped state through set_state, so that the observers
\* are notified of the transition to Stopped.
C12_FinalStoppedCommit ==
    [][\A t \in Threads :
          (thread_pc[t] = "finalLocked" /\ thread_pc'[t] = "done")
              => /\ clock_state' # clock_state
                 /\ ~clock_state'.running
                 /\ notified' = <<clock_state'>>]_vars

\* C13 (start commit): every loop thread spawned by start(), on a fresh
\* clock or on one stopped at any tick, eventually commits
\* Running(tick = 0) through set_state, with the observers notified.
C13_StartCommits ==
    \A t \in Threads :
        (thread_pc[t] = "reset")
            ~> (clock_state = ClockState(TRUE, 0)
                /\ notified = <<ClockState(TRUE, 0)>>)

\* a clock that was stopped after it had ticked, started again, and whose
\* second loop thread has committed Running(tick = 0)
C13_Witness ==
    /\ \E t \in Threads : thread_pc[t] = "done"
    /\ run_thread # None /\ thread_pc[run_thread] \in {"sleep", "tick"}
    /\ clock_state = ClockState(TRUE, 0)
    /\ notified = <<ClockState(TRUE, 0)>>
    /\ \A c \in Callers : caller_pc[c] = "idle"

\* C19 (state immutability): the state a Clock holds is always the State
\* object last committed through set_state (the initial one before any
\* commit); no field of it changes in between.
C19_StateImmutability ==
    clock_state = IF notified = <<>> THEN ClockState(FALSE, 0) ELSE notified[1]

\* C20 (callback exceptions): an exception raised by a trigger or an event
\* during set_state reaches the caller through every activation (nothing
\* catches it), the state committed by the call stays committed, and for
\* the transitions it passes through no registration after the failing one
\* is invoked.
C20_CallbackExceptionPropagates ==
    raised # <<>> =>
        /\ frames = <<>>
        /\ state = committed[Len(committed)]
        /\ \A k \in DOMAIN raised : \A i \in DOMAIN fired :
              fired[i].trans = raised[k].trans => fired[i].id <= raised[k].id

\* an event raised with a registration after it in the list whose trigger
\* is absent, and the call had changed the state
C20_Witness ==
    /\ raised # <<>>
    /\ state # last_set.old
    /\ \E p \in DOMAIN trigger_events :
          /\ trigger_events[p].id > raised[Len(raised)].id
          /\ trigger_events[p].trigger = None
          /\ registered_at[trigger_events[p].id] < raised[Len(raised)].trans

(***************************************************************************)
(* Properties of the four-digit display.                                   *)
(***************************************************************************)
\* the segments a rendering of (character, decimal_point) switches on
Rendering(g) ==
    (IF g.character = None THEN {} ELSE InitialSegments(g.character))
        \cup (IF g.decimal_point THEN {"DECIMAL_POINT"} ELSE {})

\* C14 (display exclusivity): at every instant, between the single pin
\* writes of a pass and at the wrap-around from LED 3 to LED 0 too, at most
\* one transistor base pin is driven to the active level (LOW).  Stated for
\* the display none of whose refresh threads has ended by an exception.
C14_DisplayExclusivity ==
    (\A t \in RefreshThreads : refresh_pc[t] \notin {"KeyError", "ValueError"})
        => Cardinality({i \in Leds : pins[i] = "LOW"}) <= 1

\* C15 (display fan-out): for every aggregate that can be committed, the
\* blank one included, each visit of the refresh loop to LED i renders
\* state.get(i) through the shift register and goes on to the next LED.
C15_DisplayFanOut ==
    [][\A t \in RefreshThreads :
          (refresh_pc[t] = "shift" /\ refresh_pc'[t] # "shift")
              => /\ refresh_pc'[t] = "sleep"
                 /\ written' = Rendering(Get(led_state, refresh_led[t]))]_vars

\* C16 (restart on every set_state): when a set_state call of the single
\* caller has returned, every refresh thread but the latest has ended, and
\* the call has started exactly one refresh thread, after its commit.
C16_RestartOnSetState ==
    (display_pc[MainCaller] = "idle" /\ last_call[MainCaller] = "set_state") =>
        /\ started_in_call[MainCaller] = 1
        /\ display_thread # None
        /\ refresh_pc[display_thread] # "unborn"
        /\ \A t \in RefreshThreads : t # display_thread => refresh_pc[t] \in {"unborn", "done", "KeyError", "ValueError"}

\* a second set_state call has returned: the refresh thread of the first
\* call was signalled and joined while it was cycling, the new one runs
C16_Witness ==
    /\ display_pc[MainCaller] = "idle" /\ last_call[MainCaller] = "set_state"
    /\ display_calls >= 2
    /\ \E t \in RefreshThreads : t # display_thread /\ refresh_pc[t] = "done"
    /\ refresh_pc[display_thread] \in {"pins", "shift", "sleep"}

\* C18 (domain check at construction): display(...) with a character that
\* cannot be displayed raises to the caller, so no committed aggregate
\* holds such a character and no refresh thread is started for one.
C18_UndisplayableRejected ==
    \A i \in Leds :
        led_state[i].character = None \/ led_state[i].character \in DOMAIN character_segments

(***************************************************************************)
(* Properties of the State kinds.                                          *)
(***************************************************************************)
\* C17 (type mismatch): comparing two State values of different kinds, of
\* every kind including Clock.State, fails with the type-mismatch error
\* (ValueError) and returns no boolean; when this happens inside set_state
\* the component's state and its hardware outputs are left as they are.
C17_TypeMismatchError ==
    /\ (eq_result # "none" /\ eq_left.kind # eq_right.kind)
          => eq_result = "ValueError"
    /\ (kind_outcome # "none" /\ kind_last.arg.kind # kind_state.kind)
          => /\ kind_outcome = "ValueError"
             /\ kind_state = kind_last.old
             /\ ~kind_wrote

\* C21 (dispatch before the next commit): on one execution path every
\* event of a transition has been invoked, with its trigger tested on that
\* transition's new state, before the path commits the next transition,
\* also when an event calls set_state on the component itself: no
\* activation of an earlier transition has a registration left that its
\* transition notifies while a later transition is already committed.
C21_DispatchBeforeNextCommit ==
    \A f \in DOMAIN frames :
        frames[f].trans < Len(committed) =>
            \A p \in frames[f].idx .. Len(trigger_events) :
                registered_at[trigger_events[p].id] < frames[f].trans
                    => ~Fires(trigger_events[p].trigger, committed[frames[f].trans])

(***************************************************************************)
(* Properties of the LED.                                                  *)
(***************************************************************************)
\* C23 (the pin follows the committed state): whenever the outermost
\* set_state, turn_on or turn_off call on an LED has returned, calls made
\* from its own event callbacks included, the level last written to the
\* output pin is HIGH iff the committed state.on differs from reverse.
C23_PinFollowsState ==
    led_frames = <<>> => led_pin = Level(led_on, led_reverse)

(***************************************************************************)
(* Properties of the seven-segment component.                              *)
(***************************************************************************)
\* C24 (stateless translation): the pattern set_state writes for a state
\* (character, decimal_point) depends on that state only, whatever was
\* displayed before: after a display call has returned, the segments
\* switched on are those of its character, with the decimal point iff its
\* decimal_point is set.
C24_StatelessTranslation ==
    seg_outcome = "returned" => written = Rendering(seg_last)

\* C25 (component contract): a set_state whose state differs from the
\* current one commits it through the base logic, so that it is the stored
\* state when the call has returned and the registered event has fired.
C25_SegmentFollowsContract ==
    (seg_outcome = "returned" /\ Differs(seg_last, SegmentBlank)) =>
        /\ seg_state = seg_last
        /\ seg_observed => seg_fired


\* C26 (an active LED shows its own pattern): whenever the transistor pin of
\* LED i is at the active level (LOW), the pattern most recently written to
\* the shift register is that of state.get(i).  Stated for the display
\* whose one committed aggregate holds digits only and whose refresh thread
\* has rendered without an exception and without the decimal point, once a
\* first pattern has been written.
C26_ActiveShowsOwnPattern ==
    (/\ \A t \in RefreshThreads : refresh_pc[t] \notin {"KeyError", "ValueError"}
     /\ \A i \in Leds : led_state[i].character \in Characters
     /\ character_segments = [c \in Characters |-> InitialSegments(c)]
     /\ written # {"unwritten"}
     /\ display_calls = 1)
        => \A i \in Leds :
               pins[i] = "LOW" => written = Rendering(Get(led_state, i))


(***************************************************************************)
(* Properties of the clock with a registered event.                        *)
(***************************************************************************)
\* C27 (events run under the state lock): while the loop thread invokes the
\* event of one of its commits it holds state_lock; an event that calls
\* start() or stop() on the same clock waits for that lock while its own
\* thread holds it, and never gets past the acquisition.
C27_EventSelfDeadlock ==
    \A t \in Threads :
        /\ (InEvent(t) \/ InEventCall(t)) => state_lock = Loop(t)
        /\ thread_pc[t] # "eventLocked"

\* the event of the reset commit has called stop() and waits for the lock
\* its own thread holds, while the application's stop() waits for it too
C27_Witness ==
    \E t \in Threads, c \in Callers :
        /\ thread_pc[t] = "eventStop" /\ state_lock = Loop(t)
        /\ clock_state = ClockState(TRUE, 0)
        /\ caller_pc[c] = "stop"

\* C28 (an event that raises in the loop thread): the exception ends the
\* loop thread and releases state_lock; the committed state is left with
\* running = true and no loop thread is alive.
C28_RaiseEndsTheLoop ==
    [][\A t \in Threads :
          (t \notin loop_raised /\ t \in loop_raised') =>
              /\ thread_pc'[t] = "done"
              /\ state_lock' = Free
              /\ clock_state'.running
              /\ \A u \in Threads : thread_pc'[u] \in {"unborn", "created", "done"}]_vars


\* C22 (one refresh thread under concurrent callers): whatever the
\* interleaving of set_state and stop_display_thread calls made from
\* different application threads, at most one refresh thread of the display
\* is alive at any time.
C22_OneRefreshThread ==
    Cardinality({t \in RefreshThreads :
                    refresh_pc[t] \notin {"unborn", "done", "KeyError", "ValueError"}}) <= 1

====
